---- MODULE Spec2Model ----
(***************************************************************************)
(* Newton-Raphson root finder my_newton (my_newton.py).                    *)
(*                                                                         *)
(* The routine works on Python floats, i.e. IEEE-754 binary64 values.      *)
(* They are modelled bit-exactly: a finite value is sign * man * 2^exp     *)
(* with man a natural number below 2^53 kept as a little-endian sequence   *)
(* of 15-bit limbs (TLC integers are 32 bits wide), and every arithmetic   *)
(* operation computes the exact result and rounds it once, to nearest,     *)
(* ties to even, as the hardware does.                                     *)
(***************************************************************************)
EXTENDS Integers, Sequences, FiniteSets, TLC

(***************************************************************************)
(* Natural numbers of arbitrary size: <<l1, ..., ln>> is the sum of        *)
(* l_i * Base^(i-1), with no high zero limb (zero is <<>>).                *)
(***************************************************************************)
LimbBits == 15

Base == 2^LimbBits

Limb(a, i) == IF i <= Len(a) THEN a[i] ELSE 0

RECURSIVE BNorm(_)
BNorm(a) ==
    IF a = <<>> THEN <<>>
    ELSE IF a[Len(a)] = 0 THEN BNorm(SubSeq(a, 1, Len(a) - 1))
    ELSE a

BFromInt(n) ==
    BNorm(<<n % Base, (n \div Base) % Base, n \div (Base * Base)>>)

RECURSIVE BitsOf(_)
BitsOf(n) == IF n = 0 THEN 0 ELSE 1 + BitsOf(n \div 2)

\* number of significant bits of a
BLen(a) == IF a = <<>> THEN 0 ELSE LimbBits * (Len(a) - 1) + BitsOf(a[Len(a)])

RECURSIVE BCmpFrom(_, _, _)
BCmpFrom(a, b, i) ==
    IF i = 0 THEN 0
    ELSE IF a[i] < b[i] THEN -1
    ELSE IF a[i] > b[i] THEN 1
    ELSE BCmpFrom(a, b, i - 1)

\* -1, 0 or 1 as a < b, a = b, a > b
BCmp(a, b) ==
    IF Len(a) < Len(b) THEN -1
    ELSE IF Len(a) > Len(b) THEN 1
    ELSE BCmpFrom(a, b, Len(a))

RECURSIVE BAddFrom(_, _, _, _)
BAddFrom(a, b, i, c) ==
    IF i > Len(a) /\ i > Len(b)
    THEN (IF c = 0 THEN <<>> ELSE <<c>>)
    ELSE LET s == Limb(a, i) + Limb(b, i) + c
         IN  <<s % Base>> \o BAddFrom(a, b, i + 1, s \div Base)

BAdd(a, b) == BAddFrom(a, b, 1, 0)

RECURSIVE BSubFrom(_, _, _, _)
BSubFrom(a, b, i, c) ==
    IF i > Len(a) THEN <<>>
    ELSE LET s == a[i] - Limb(b, i) - c
         IN  <<s % Base>> \o BSubFrom(a, b, i + 1, IF s < 0 THEN 1 ELSE 0)

\* a - b, for a >= b
BSub(a, b) == BNorm(BSubFrom(a, b, 1, 0))

RECURSIVE BMulSmallFrom(_, _, _, _)
BMulSmallFrom(a, k, i, c) ==
    IF i > Len(a)
    THEN (IF c = 0 THEN <<>> ELSE <<c>>)
    ELSE LET s == a[i] * k + c
         IN  <<s % Base>> \o BMulSmallFrom(a, k, i + 1, s \div Base)

\* a * k, for 0 <= k < Base
BMulSmall(a, k) == IF k = 0 THEN <<>> ELSE BMulSmallFrom(a, k, 1, 0)

Zeros(n) == [i \in 1..n |-> 0]

RECURSIVE BMulFrom(_, _, _)
BMulFrom(a, b, i) ==
    IF i > Len(b) THEN <<>>
    ELSE BAdd(IF b[i] = 0 THEN <<>> ELSE Zeros(i - 1) \o BMulSmall(a, b[i]),
              BMulFrom(a, b, i + 1))

BMul(a, b) == IF a = <<>> THEN <<>> ELSE BMulFrom(a, b, 1)

\* a * 2^k
BShl(a, k) ==
    IF a = <<>> THEN <<>>
    ELSE Zeros(k \div LimbBits) \o BMulSmall(a, 2^(k % LimbBits))

RECURSIVE BDivSmallFrom(_, _, _, _)
BDivSmallFrom(a, k, i, r) ==
    IF i = 0 THEN <<>>
    ELSE LET s == r * Base + a[i]
         IN  BDivSmallFrom(a, k, i - 1, s % k) \o <<s \div k>>

\* floor(a / 2^k)
BShr(a, k) ==
    IF k \div LimbBits >= Len(a) THEN <<>>
    ELSE LET hi == SubSeq(a, (k \div LimbBits) + 1, Len(a))
         IN  BNorm(BDivSmallFrom(hi, 2^(k % LimbBits), Len(hi), 0))

\* bit i of a (bit 0 is the lowest)
BBit(a, i) == (Limb(a, (i \div LimbBits) + 1) \div 2^(i % LimbBits)) % 2

\* whether one of the bits 0 .. k-1 of a is set
BLowNonzero(a, k) ==
    \/ \E i \in 1..(k \div LimbBits) : Limb(a, i) /= 0
    \/ Limb(a, (k \div LimbBits) + 1) % 2^(k % LimbBits) /= 0

(***************************************************************************)
(* Python floats.  A value is a record: k is "fin" (s, m, e stand for      *)
(* (-1)^s * m * 2^e, with 2^52 <= m < 2^53, or e = MinExp and m < 2^52 for *)
(* a subnormal), "zero" (signed), "inf" (signed) or "nan".  The kind "ovf" *)
(* is not a value: it stands for an OverflowError raised while the value   *)
(* was being computed.                                                     *)
(***************************************************************************)
Prec == 53

MinExp == -1074

MaxExp == 971

Fin(s, m, e) == [k |-> "fin", s |-> s, m |-> m, e |-> e]

Zero(s) == [k |-> "zero", s |-> s, m |-> <<>>, e |-> 0]

Inf(s) == [k |-> "inf", s |-> s, m |-> <<>>, e |-> 0]

NaN == [k |-> "nan", s |-> 0, m |-> <<>>, e |-> 0]

Ovf == [k |-> "ovf", s |-> 0, m |-> <<>>, e |-> 0]

\* (-1)^s * q * 2^et, an infinity when et is beyond the largest exponent
FFit(s, q, et) == IF et > MaxExp THEN Inf(s) ELSE Fin(s, q, et)

\* (-1)^s * q * 2^et for q of at most Prec + 1 bits: a carry out of the
\* rounding leaves q = 2^Prec, which is halved exactly
FCarry(s, q, et) ==
    IF q = <<>> THEN Zero(s)
    ELSE IF BLen(q) > Prec THEN FFit(s, BShr(q, 1), et + 1)
    ELSE FFit(s, q, et)

\* whether dropping the r low bits of M rounds away from zero
RoundsUp(mode, M, r) ==
    CASE mode = "nearest" ->
             /\ BBit(M, r - 1) = 1
             /\ (BLowNonzero(M, r - 1) \/ BBit(M, r) = 1)
      [] mode = "down" -> FALSE
      [] mode = "up" -> BLowNonzero(M, r)

\* the exponent of the float that holds an n-bit mantissa scaled by 2^E
FExp(n, E) == IF E + n - Prec > MinExp THEN E + n - Prec ELSE MinExp

\* (-1)^s * M * 2^E as a float of exponent et
FRoundAt(mode, s, M, E, et) ==
    IF et <= E THEN FFit(s, BShl(M, E - et), et)
    ELSE FCarry(s, IF RoundsUp(mode, M, et - E) THEN BAdd(BShr(M, et - E), <<1>>)
                   ELSE BShr(M, et - E), et)

\* (-1)^s * M * 2^E as a float, rounded once: "nearest" rounds to the nearest
\* float, ties to even (IEEE-754's default, what + - * / do); "down" drops the
\* bits that do not fit; "up" takes the next float away from zero when bits
\* were dropped.  A result beyond the largest float is an infinity.
FRoundTo(mode, s, M, E) ==
    IF M = <<>> THEN Zero(s) ELSE FRoundAt(mode, s, M, E, FExp(BLen(M), E))

FRound(s, M, E) == FRoundTo("nearest", s, M, E)

\* the float 2.0**k
Pow2(k) == FRound(0, <<1>>, k)

\* float(n) for a Python int n of small magnitude
FromInt(n) ==
    FRound(IF n < 0 THEN 1 ELSE 0, BFromInt(IF n < 0 THEN -n ELSE n), 0)

FNeg(a) == IF a.k \in {"nan", "ovf"} THEN a ELSE [a EXCEPT !.s = 1 - a.s]

FAbs(a) == IF a.k \in {"nan", "ovf"} THEN a ELSE [a EXCEPT !.s = 0]

Xor(s, t) == IF s = t THEN 0 ELSE 1

\* a + b exactly, as <<s, M, E>>, for b more than 60 binary places below a:
\* b only decides the rounding, and counts as one unit three places below a
FAddFar(a, b) ==
    <<a.s, IF a.s = b.s THEN BAdd(BShl(a.m, 3), <<1>>)
           ELSE BSub(BShl(a.m, 3), <<1>>), a.e - 3>>

\* (-1)^sa * A + (-1)^sb * B exactly, as <<s, M>>; a zero sum is +0
FAddMag(sa, A, sb, B, c) ==
    IF sa = sb THEN <<sa, BAdd(A, B)>>
    ELSE IF c = 0 THEN <<0, <<>> >>
    ELSE IF c > 0 THEN <<sa, BSub(A, B)>>
    ELSE <<sb, BSub(B, A)>>

\* a + b exactly, as <<s, M, E>> with E = e, the smaller exponent
FAddNear(a, b, e) ==
    FAddMag(a.s, BShl(a.m, a.e - e), b.s, BShl(b.m, b.e - e),
            BCmp(BShl(a.m, a.e - e), BShl(b.m, b.e - e))) \o <<e>>

FRoundSum(t) == FRound(t[1], t[2], t[3])

\* a + b for finite nonzero a and b
FAddFin(a, b) ==
    FRoundSum(IF a.e - b.e > 60 THEN FAddFar(a, b)
              ELSE IF b.e - a.e > 60 THEN FAddFar(b, a)
              ELSE FAddNear(a, b, IF a.e < b.e THEN a.e ELSE b.e))

FAdd(a, b) ==
    IF a.k = "ovf" \/ b.k = "ovf" THEN Ovf
    ELSE IF a.k = "nan" \/ b.k = "nan" THEN NaN
    ELSE IF a.k = "inf" THEN (IF b.k = "inf" /\ b.s /= a.s THEN NaN ELSE a)
    ELSE IF b.k = "inf" THEN b
    ELSE IF a.k = "zero" /\ b.k = "zero"
    THEN Zero(IF a.s = 1 /\ b.s = 1 THEN 1 ELSE 0)
    ELSE IF a.k = "zero" THEN b
    ELSE IF b.k = "zero" THEN a
    ELSE FAddFin(a, b)

FSub(a, b) == FAdd(a, FNeg(b))

FMul(a, b) ==
    IF a.k = "ovf" \/ b.k = "ovf" THEN Ovf
    ELSE IF a.k = "nan" \/ b.k = "nan" THEN NaN
    ELSE IF a.k = "inf" \/ b.k = "inf"
    THEN (IF a.k = "zero" \/ b.k = "zero" THEN NaN ELSE Inf(Xor(a.s, b.s)))
    ELSE IF a.k = "zero" \/ b.k = "zero" THEN Zero(Xor(a.s, b.s))
    ELSE FRound(Xor(a.s, b.s), BMul(a.m, b.m), a.e + b.e)

\* long division, one quotient bit a step, until the quotient q has n bits:
\* <<q, R>> with R = 0 iff the division is exact.  B <= R < 2 * B at the start
RECURSIVE DivLoop(_, _, _, _)
DivLoop(R, B, q, n) ==
    IF BLen(q) = n THEN <<q, R>>
    ELSE LET bit == IF BCmp(R, B) >= 0 THEN 1 ELSE 0
         IN  DivLoop(BShl(IF bit = 1 THEN BSub(R, B) ELSE R, 1), B,
                     BAdd(BAdd(q, q), BFromInt(bit)), n)

\* the float nearest to (-1)^s * (2 * q + t) * 2^E for the quotient
\* qr = <<q, R>> of a long division: the sticky bit t is 1 iff R /= 0
FRoundQuot(s, qr, E) ==
    FRound(s, BAdd(BAdd(qr[1], qr[1]), IF qr[2] = <<>> THEN <<>> ELSE <<1>>),
           E)

\* the float nearest to (-1)^s * (N / D) * 2^E, for naturals N, D > 0: the
\* operands are shifted to B <= R < 2 * B, and the quotient is taken to
\* Prec + 2 bits and a sticky bit
FRatio(s, N, D, E) ==
    LET d  == BLen(D) - BLen(N)
        N0 == IF d > 0 THEN BShl(N, d) ELSE N
        D0 == IF d < 0 THEN BShl(D, -d) ELSE D
        lt == IF BCmp(N0, D0) < 0 THEN 1 ELSE 0
    IN  FRoundQuot(s, DivLoop(BShl(N0, lt), D0, <<>>, Prec + 2),
                   E - d - lt - (Prec + 2))

\* a / b for finite nonzero a and b
FDivFin(a, b) == FRatio(Xor(a.s, b.s), a.m, b.m, a.e - b.e)

\* a / b for b /= 0 (Python raises ZeroDivisionError on a zero divisor; the
\* routine tests the divisor before it divides)
FDiv(a, b) ==
    IF a.k = "ovf" \/ b.k = "ovf" THEN Ovf
    ELSE IF a.k = "nan" \/ b.k = "nan" THEN NaN
    ELSE IF a.k = "inf" THEN (IF b.k = "inf" THEN NaN ELSE Inf(Xor(a.s, b.s)))
    ELSE IF b.k = "inf" THEN Zero(Xor(a.s, b.s))
    ELSE IF a.k = "zero" THEN Zero(Xor(a.s, b.s))
    ELSE FDivFin(a, b)

RECURSIVE BPow(_, _)
BPow(m, n) ==
    IF n = 0 THEN <<1>>
    ELSE LET h == BPow(m, n \div 2)
         IN  IF n % 2 = 0 THEN BMul(h, h) ELSE BMul(BMul(h, h), m)

\* OverflowError in place of an infinite result
FRaiseIfInf(r) == IF r.k = "inf" THEN Ovf ELSE r

\* a ** n for a float a and n in {2, 3}, which is the C library's pow(a, n).
\* pow gives a float next to the exact power, not always the nearest one: mode
\* says which ("nearest", "down", "up").  Python raises OverflowError when the
\* result of ** is beyond the largest float, and gives 0.0 when it underflows.
FPow(a, n, mode) ==
    IF a.k \in {"ovf", "nan"} THEN a
    ELSE LET s == IF n % 2 = 0 THEN 0 ELSE a.s
         IN  IF a.k = "inf" THEN Inf(s)
             ELSE IF a.k = "zero" THEN Zero(s)
             ELSE FRaiseIfInf(FRoundTo(mode, s, BPow(a.m, n), n * a.e))

\* the float a literal m e-k denotes (1e-6 is Dec(1, 6)): the float nearest
\* to m / 10^k
Dec(m, k) == FRatio(0, BFromInt(m), BPow(<<10>>, k), 0)

\* a == 0
FIsZero(a) == a.k = "zero"

\* a < b for nonnegative a and b
FLtMag(a, b) ==
    IF a.k = "inf" THEN FALSE
    ELSE IF b.k = "inf" THEN TRUE
    ELSE IF b.k = "zero" THEN FALSE
    ELSE IF a.k = "zero" THEN TRUE
    ELSE IF a.e /= b.e THEN a.e < b.e
    ELSE BCmp(a.m, b.m) < 0

\* a < b; every comparison with a nan is false
FLt(a, b) ==
    IF a.k = "nan" \/ b.k = "nan" THEN FALSE
    ELSE IF a.k = "zero" /\ b.k = "zero" THEN FALSE
    ELSE IF a.s /= b.s THEN a.s = 1
    ELSE IF a.s = 0 THEN FLtMag(a, b)
    ELSE FLtMag(FAbs(b), FAbs(a))

\* a <= b; every comparison with a nan is false
FLe(a, b) == a.k /= "nan" /\ b.k /= "nan" /\ ~FLt(b, a)

IsNumber(a) == a.k \in {"fin", "zero"}

(***************************************************************************)
(* The expressions.  my_newton receives a sympy expression; sympy's diff   *)
(* and lambdify turn it and its derivative into the Python functions f and *)
(* df, whose bodies are the printed expressions, evaluated by Python left  *)
(* to right.  An expression is named by its printed form.                  *)
(***************************************************************************)
Exprs == {"x**2 - 4", "2", "x**3", "x**2", "x**3 - 3*x + 7"}

\* the free symbols of an expression (line 6)
free_symbols(expr) == IF expr = "2" THEN {} ELSE {"x"}

\* f = lambdify(x, f_expr): f(v)
f(expr, v, lib) ==
    CASE expr = "x**2 - 4" -> FSub(FPow(v, 2, lib), FromInt(4))
      [] expr = "2" -> FromInt(2)
      [] expr = "x**3" -> FPow(v, 3, lib)
      [] expr = "x**2" -> FPow(v, 2, lib)
      [] expr = "x**3 - 3*x + 7" ->
             FAdd(FSub(FPow(v, 3, lib), FMul(FromInt(3), v)), FromInt(7))

\* df = lambdify(x, diff(f_expr, x)): df(v)
df(expr, v, lib) ==
    CASE expr = "x**2 - 4" -> FMul(FromInt(2), v)
      [] expr = "2" -> FromInt(0)
      [] expr = "x**3" -> FMul(FromInt(3), FPow(v, 2, lib))
      [] expr = "x**2" -> FMul(FromInt(2), v)
      [] expr = "x**3 - 3*x + 7" ->
             FSub(FMul(FromInt(3), FPow(v, 2, lib)), FromInt(3))

(***************************************************************************)
(* The arguments of a call.                                                *)
(***************************************************************************)
DefaultTol == Dec(1, 6)

DefaultMaxIter == 20

TestMaxIter == 200

TestTols == {Dec(1, 0), Dec(1, 2), Dec(1, 8), Dec(1, 12)}

\* the calls of test_my_newton.py
TestCalls ==
    {[f_expr |-> "x**2 - 4", x0 |-> FromInt(3), tol |-> DefaultTol,
      max_iter |-> DefaultMaxIter]}
    \cup {[f_expr |-> "x**2 - 4", x0 |-> FromInt(3), tol |-> t,
           max_iter |-> TestMaxIter] : t \in TestTols}
    \cup {[f_expr |-> "2", x0 |-> FromInt(1), tol |-> DefaultTol,
           max_iter |-> DefaultMaxIter]}
    \cup {[f_expr |-> "x**3", x0 |-> FromInt(1000), tol |-> DefaultTol,
           max_iter |-> DefaultMaxIter]}

MaxX0 == 3

MaxIter == 3

\* initial guesses: small integers, and the floats 2.0**-1000 and 2.0**-1074
\* (the smallest positive float)
X0s == {FromInt(n) : n \in 0..MaxX0} \cup {Pow2(-1000), Pow2(MinExp)}

Tols == {Dec(1, 0), DefaultTol}

OtherCalls == [f_expr : Exprs, x0 : X0s, tol : Tols, max_iter : 1..MaxIter]

Calls == TestCalls \cup OtherCalls

\* the C libraries: how pow rounds
Libms == {"nearest", "down", "up"}

(***************************************************************************)
(* One call of my_newton, and a second call with the same arguments.       *)
(***************************************************************************)
VARIABLES
    args,       \* the arguments f_expr, x0, tol, max_iter
    libm,       \* the C library the interpreter runs on
    xn,         \* the list xn
    iter,       \* the iterations of the for loop completed so far
    outcome,    \* "running", "returned", or the exception raised
    result,     \* the list the caller receives; None until the call returns
    calls,      \* the calls made so far
    first       \* the outcome and the result of the first call, once over

vars == <<args, libm, xn, iter, outcome, result, calls, first>>

None == <<>>

Errors == {"ZeroDivisionError", "ValueError", "OverflowError"}

\* lines 6-11: the call begins
Enter == <<args.x0>>

Init ==
    /\ args \in Calls
    /\ libm \in Libms
    /\ xn = Enter
    /\ iter = 0
    /\ outcome = "running"
    /\ result = None
    /\ calls = 1
    /\ first = None

\* xn[-1]
Last(l) == l[Len(l)]

\* line 14: df(xn[-1])
dfLast == df(args.f_expr, Last(xn), libm)

\* the update with the wrong sign
x_new_Plus == FAdd(Last(xn), FDiv(f(args.f_expr, Last(xn), libm), dfLast))

\* line 16: xn[-1] - (f(xn[-1]) / df(xn[-1]))
x_new == FSub(Last(xn), FDiv(f(args.f_expr, Last(xn), libm), dfLast))

\* the test against xn[-1], which after the append is x_new itself
Converged_SelfCompare(l) == FLt(FAbs(FSub(l[Len(l)], l[Len(l)])), args.tol)

\* the test without np.abs
Converged_NoAbs(l) == FLt(FSub(l[Len(l)], l[Len(l) - 1]), args.tol)

\* line 18, after the append of line 17: np.abs(x_new - xn[-2]) < tol
Converged(l) == FLt(FAbs(FSub(l[Len(l)], l[Len(l) - 1])), args.tol)

\* the loop as range(1, max_iter)
InLoop_FromOne == outcome = "running" /\ iter + 1 < args.max_iter

\* line 13: the loop has an iteration left
InLoop == outcome = "running" /\ iter < args.max_iter

\* lines 14, 16 and 17: with df(xn[-1]) = d not zero and x_new = v, and no
\* exception while they were computed, v is appended to xn
Appended(d, v) ==
    /\ d.k /= "ovf"
    /\ ~FIsZero(d)
    /\ v.k /= "ovf"
    /\ xn' = Append(xn, v)

\* lines 14 and 16: d = df(xn[-1]) raised OverflowError, or d is not zero and
\* x_new raised it
Overflowed(d) == d.k = "ovf" \/ (~FIsZero(d) /\ x_new.k = "ovf")

\* a zero derivative leaves the loop instead of raising
RaiseZeroDivisionError_Break ==
    /\ InLoop
    /\ FIsZero(dfLast)
    /\ outcome' = "ValueError"
    /\ UNCHANGED <<args, libm, xn, iter, result, calls, first>>

\* lines 14-15: the derivative is zero
RaiseZeroDivisionError ==
    /\ InLoop
    /\ FIsZero(dfLast)
    /\ outcome' = "ZeroDivisionError"
    /\ UNCHANGED <<args, libm, xn, iter, result, calls, first>>

\* lines 14 and 16: a ** inside df or f raises OverflowError
RaiseOverflowError ==
    /\ InLoop
    /\ Overflowed(dfLast)
    /\ outcome' = "OverflowError"
    /\ UNCHANGED <<args, libm, xn, iter, result, calls, first>>

\* the append placed after the convergence test
Return_AppendAfterTest ==
    /\ InLoop
    /\ LET d == dfLast
           v == x_new
       IN  /\ d.k /= "ovf" /\ ~FIsZero(d) /\ v.k /= "ovf"
           /\ Converged(Append(xn, v))
    /\ iter' = iter + 1
    /\ outcome' = "returned"
    /\ result' = xn
    /\ UNCHANGED <<args, libm, xn, calls, first>>

\* lines 14-19: the step is below tol
Return ==
    /\ InLoop
    /\ Appended(dfLast, x_new)
    /\ Converged(xn')
    /\ iter' = iter + 1
    /\ outcome' = "returned"
    /\ result' = xn'
    /\ UNCHANGED <<args, libm, calls, first>>

\* lines 14-18: the step is not below tol
Continue ==
    /\ InLoop
    /\ Appended(dfLast, x_new)
    /\ ~Converged(xn')
    /\ iter' = iter + 1
    /\ UNCHANGED <<args, libm, outcome, result, calls, first>>

\* the iterates returned when the loop is over
RaiseValueError_ReturnsList ==
    /\ outcome = "running"
    /\ ~InLoop
    /\ outcome' = "returned"
    /\ result' = xn
    /\ UNCHANGED <<args, libm, xn, iter, calls, first>>

\* line 21: the loop is over
RaiseValueError ==
    /\ outcome = "running"
    /\ ~InLoop
    /\ outcome' = "ValueError"
    /\ UNCHANGED <<args, libm, xn, iter, result, calls, first>>

\* the list kept from one call to the next (xn=[] as a default argument)
CallAgain_KeepsList ==
    /\ outcome /= "running"
    /\ calls = 1
    /\ first' = <<outcome, result>>
    /\ calls' = 2
    /\ xn' = xn \o Enter
    /\ iter' = 0
    /\ outcome' = "running"
    /\ result' = None
    /\ UNCHANGED <<args, libm>>

\* the caller calls my_newton again with the same arguments (lines 4-11)
CallAgain ==
    /\ outcome /= "running"
    /\ calls = 1
    /\ first' = <<outcome, result>>
    /\ calls' = 2
    /\ xn' = Enter
    /\ iter' = 0
    /\ outcome' = "running"
    /\ result' = None
    /\ UNCHANGED <<args, libm>>

Next ==
    \/ RaiseZeroDivisionError
    \/ RaiseOverflowError
    \/ Return
    \/ Continue
    \/ RaiseValueError
    \/ CallAgain

Spec == Init /\ [][Next]_vars

(***************************************************************************)
(* The claims.                                                             *)
(***************************************************************************)
\* |l[i+1] - l[i]|
StepSize(l, i) == FAbs(FSub(l[i + 1], l[i]))

Two == FromInt(2)

\* C1: a returned sequence is the whole list, from x0 on; its last two
\* elements differ by less than tol and every earlier pair of consecutive
\* elements differs by at least tol.
C1_StopsAtFirstSmallStep ==
    outcome = "returned" =>
        /\ result = xn
        /\ Len(result) >= 2
        /\ result[1] = args.x0
        /\ FLt(StepSize(result, Len(result) - 1), args.tol)
        /\ \A i \in 1..(Len(result) - 2) : FLe(args.tol, StepSize(result, i))

C1_Witness ==
    /\ outcome = "returned"
    /\ Len(result) >= 3
    /\ args.f_expr = "x**3 - 3*x + 7"

\* C2: a returned sequence starts with x0 itself and each later element is
\* the element before it minus f over df there.
C2_NewtonTrajectory ==
    outcome = "returned" =>
        /\ result[1] = args.x0
        /\ \A i \in 1..(Len(result) - 1) :
               result[i + 1] =
                   FSub(result[i], FDiv(f(args.f_expr, result[i], libm),
                                        df(args.f_expr, result[i], libm)))

C2_Witness ==
    /\ outcome = "returned"
    /\ Len(result) >= 4
    /\ libm = "down"

C3Calls == {c \in TestCalls : c.f_expr = "x**2 - 4"}

\* C3: for x**2 - 4 from 3, with the default tol and max_iter and with each
\* tested tol and max_iter = 200, the call raises nothing, does not run out of
\* iterations, and the last element returned is within tol of 2.
C3_QuadraticConverges ==
    args \in C3Calls =>
        /\ outcome \notin Errors
        /\ ~(outcome = "running" /\ iter = args.max_iter)
        /\ outcome = "returned" =>
               FLe(FAbs(FSub(Last(result), Two)), args.tol)

C3_Witness ==
    /\ args \in C3Calls
    /\ args.tol = Dec(1, 12)
    /\ outcome = "returned"
    /\ Cardinality({c.tol : c \in C3Calls}) = 5

\* C4: with an expression without free symbols the call raises
\* ZeroDivisionError in its first iteration: nothing is appended after x0 and
\* nothing is returned.
C4_ConstantRaises ==
    free_symbols(args.f_expr) = {} =>
        /\ outcome \in {"running", "ZeroDivisionError"}
        /\ xn = <<args.x0>>
        /\ iter = 0
        /\ result = None

C4_Witness ==
    /\ free_symbols(args.f_expr) = {}
    /\ outcome = "ZeroDivisionError"
    /\ args.x0 = Pow2(-1000)
    /\ args.max_iter = 1

C5Call == [f_expr |-> "x**3", x0 |-> FromInt(1000), tol |-> DefaultTol,
           max_iter |-> DefaultMaxIter]

\* C5: for x**3 from 1000 with the defaults the call raises ValueError and
\* returns nothing; when it does, 21 iterates were computed, no derivative was
\* zero, every step was at least tol, and each iterate is 2/3 of the one
\* before (3 * x[i+1] = 2 * x[i] to within x[i] * 2^-48).
C5_CubicDoesNotConverge ==
    args = C5Call =>
        /\ outcome \in {"running", "ValueError"}
        /\ result = None
        /\ outcome = "ValueError" =>
            /\ Len(xn) = DefaultMaxIter + 1
            /\ \A i \in 1..(Len(xn) - 1) :
                /\ ~FIsZero(df(args.f_expr, xn[i], libm))
                /\ FLe(args.tol, StepSize(xn, i))
                /\ FLe(FAbs(FSub(FMul(FromInt(3), xn[i + 1]), FMul(Two, xn[i]))),
                       FMul(xn[i], Pow2(-48)))

C5_Witness ==
    /\ args = C5Call
    /\ outcome = "ValueError"
    /\ Len(xn) = 21

\* C6: a call ends within max_iter iterations as a returned sequence, a
\* ZeroDivisionError or a ValueError, and it is a ValueError if and only if all
\* max_iter iterations completed, each from an iterate with a nonzero
\* derivative and with a step not below tol.
C6_ThreeOutcomes ==
    /\ iter <= args.max_iter
    /\ outcome \in {"running", "returned", "ZeroDivisionError", "ValueError"}
    /\ outcome /= "running" =>
           (outcome = "ValueError" <=>
                /\ iter = args.max_iter
                /\ result = None
                /\ \A i \in 1..(Len(xn) - 1) :
                       /\ ~FIsZero(df(args.f_expr, xn[i], libm))
                       /\ ~FLt(StepSize(xn, i), args.tol))

\* C7: the second of two calls with the same arguments ends as the first did:
\* the same exception, or the same sequence.
C7_SameOutcomeTwice ==
    (calls = 2 /\ outcome /= "running") => first = <<outcome, result>>

C7_Witness ==
    /\ calls = 2
    /\ outcome = "returned"
    /\ Len(result) >= 3
    /\ first = <<outcome, result>>

\* C8: an iteration raises ZeroDivisionError exactly when the derivative at
\* the last iterate is zero, whatever f is there, and then returns nothing;
\* with any other derivative the Newton step is taken.
C8_ZeroDerivativeOnly ==
    [][/\ InLoop =>
           IF FIsZero(dfLast)
           THEN outcome' = "ZeroDivisionError" /\ result' = None /\ xn' = xn
           ELSE outcome' /= "ZeroDivisionError" /\ xn' = Append(xn, x_new)
       /\ (outcome' = "ZeroDivisionError" /\ outcome = "running") => InLoop]_vars

\* C9: the list holds one element more than the iterations completed, and a
\* returned sequence holds between 2 and max_iter + 1 elements.
C9_LengthIsIterationsPlusOne ==
    /\ Len(xn) = iter + 1
    /\ outcome = "returned" =>
           /\ Len(result) >= 2
           /\ Len(result) <= args.max_iter + 1

C9_Witness ==
    /\ outcome = "returned"
    /\ Len(result) = args.max_iter + 1
    /\ args.max_iter > 1

\* f(x0) == 0 and df(x0) is a nonzero number
RootAtX0 ==
    /\ FIsZero(f(args.f_expr, args.x0, libm))
    /\ df(args.f_expr, args.x0, libm).k \in {"fin", "inf"}

\* C10: when f(x0) is zero and df(x0) is not, the call returns <<x0, x0>>
\* after one iteration, whatever tol and max_iter are.
C10_RootAtStart ==
    RootAtX0 =>
        /\ outcome \in {"running", "returned"}
        /\ outcome = "running" => (iter = 0 /\ xn = <<args.x0>>)
        /\ outcome = "returned" => (iter = 1 /\ result = <<args.x0, args.x0>>)

C10_Witness ==
    /\ RootAtX0
    /\ outcome = "returned"
    /\ result = <<args.x0, args.x0>>
    /\ args.max_iter = 1
    /\ args.f_expr = "x**2 - 4"

====
